---------------------------- MODULE Spec2Model ----------------------------
(***************************************************************************)
(* Model of the similarity-evaluation engine of mkgu/metrics/__init__.py   *)
(* (Similarity, subset, OuterCrossValidationSimilarity, expand,            *)
(* ParametricCVSimilarity, NonparametricCVSimilarity, Score) and of        *)
(* DicarloRajalingham2018I2n.ceil_score.                                   *)
(*                                                                         *)
(* An assembly is modelled by what the engine reads of it: the levels of   *)
(* its 'presentation' MultiIndex and, per entry, the label on each level.  *)
(* Labels are positive integers; 0 stands for a level the assembly lacks.  *)
(***************************************************************************)
EXTENDS Integers, Sequences, FiniteSets, TLC

\* ------------------------------------------------------------------ bounds
PresLen == 4         \* entries on the presentation axis of an evaluation run
NSplits == 2         \* cross_validation_splits of the modelled similarity object
MaxAdjacent == 2     \* most coordinate values on an adjacent dimension
MaxSubsetLen == 2    \* longest presentation axis in the alignment specification
MaxCeilSplits == 2   \* most splits of a score handed to ceil_score

\* ------------------------------------------------------------------ data
Levels == {"image_id", "object_name", "repetition"}
\* level_names of the presentation MultiIndex, in index order
LevelOrder == <<"image_id", "object_name", "repetition">>
Classes == {1, 2}    \* object_name labels

None == [none |-> TRUE]

Range(f) == {f[x] : x \in DOMAIN f}

SubsetLabels == {1, 2}   \* labels used by the alignment specification

\* the entries an assembly with the level set lv can hold (labels from lab)
EntriesOf(lv, lab) ==
    {e \in [Levels -> lab \cup {0}] :
        \A l \in Levels : IF l \in lv THEN e[l] \in lab ELSE e[l] = 0}

SeqsUpTo(S, n) == UNION {[1..k -> S] : k \in 0..n}

\* levels and per-entry labels of 'presentation', neuroid_id labels of 'neuroid'
Assembly(lv, pres, nid) == [levels |-> lv, pres |-> pres, neuroid_id |-> nid]

Entry(i, o, r) == [image_id |-> i, object_name |-> o, repetition |-> r]

VARIABLES
    pc,                  \* position of the running call
    source,              \* source_assembly as passed to __call__
    target,              \* target_assembly as passed to __call__
    cfg,                 \* cross_validation_splits, cross_validation_data_ratio, protocol
    srcAdj,              \* the source's adjacent dimension: name and coordinate values
    tgtAdj,              \* the target's adjacent dimension: name and coordinate values
    aligned,             \* result of align(): a result record, or None before it ran
    src,                 \* source_assembly local of __call__ / apply
    tgt,                 \* target_assembly local of __call__ / apply
    pairs,               \* itertools.product(adjacents1, adjacents2), as a list
    sliceIdx,            \* index in pairs of the slice cross_apply is working on
    split_iterator,      \* loop variable of cross_apply
    partition,           \* (train_indices, test_indices) of the current split
    subsets,             \* train_source, train_target, test_source, test_target
    target_neuroid_ids,  \* self._target_neuroid_ids, with the split whose fit set it
    fitted,              \* what fit_values learned: the instance's mapping state
    prediction,          \* local of apply_split
    opLog,               \* fit/predict/compare calls of the current split, in order
    split_scores,        \* dict of cross_apply, as a sequence indexed by split
    partitionLog,        \* partitions generated for the current slice, in order
    similarities,        \* list of cross_apply results in apply
    merged,              \* the merged similarity assembly
    score,               \* the Score returned by __call__, or None
    failure,             \* the exception that aborted the call, "" if none
    runNo,               \* which call on the similarity object this is
    prevRun,             \* partitions and values of the call before this one
    tasks,               \* per fold, when folds are run as interleaved tasks
    ceil                 \* ceil_score: its arguments and its outcome

inputs == <<source, target, cfg, srcAdj, tgtAdj>>
callVars == <<aligned, src, tgt, pairs, sliceIdx, similarities, merged, score>>
cvVars == <<split_iterator, partition, subsets, split_scores, partitionLog>>
fitVars == <<target_neuroid_ids, fitted, prediction, opLog>>
extras == <<runNo, prevRun, tasks, ceil>>
vars == <<pc, inputs, callVars, cvVars, fitVars, failure, extras>>

Ok(v) == [ok |-> TRUE, error |-> "", value |-> v]
Err(e) == [ok |-> FALSE, error |-> e, value |-> None]

Min(a, b) == IF a < b THEN a ELSE b

\* ------------------------------------------------------------------ subset
\* lines 68-71: keep the source entries whose label on `level` is among the
\* target's values for that level; a level the source lacks is skipped (66-67)
FilterLevel(s, t, level) ==
    IF level \notin s.levels
    THEN s
    ELSE [s EXCEPT !.pres =
            SelectSeq(s.pres,
                      LAMBDA e : \E j \in 1..Len(t.pres) : t.pres[j][level] = e[level])]

\* line 63: the target's level names, in index order
LevelNames(t) == SelectSeq(LevelOrder, LAMBDA l : l \in t.levels)

\* lines 65-71: the loop over the target's levels, each pass filtering the
\* already filtered source
RECURSIVE FilterLevels(_, _, _)
FilterLevels(s, t, lvs) ==
    IF lvs = <<>> THEN s
    ELSE FilterLevels(FilterLevel(s, t, Head(lvs)), t, Tail(lvs))

\* variant of subset that leaves the level loop after its first pass
SubsetFirstLevelOnly(s, t) ==
    IF \A l \in t.levels : l \notin s.levels
    THEN Err("AssertionError")
    ELSE LET lvs == SelectSeq(LevelNames(t), LAMBDA l : l \in s.levels)
             out == FilterLevel(s, t, Head(lvs))
         IN  IF Len(out.pres) = Len(t.pres) THEN Ok(out) ELSE Err("AssertionError")

\* subset(source_assembly, target_assembly, subset_dims=['presentation'])
Subset(s, t) ==
    IF \A l \in t.levels : l \notin s.levels                          \* line 64
    THEN Err("AssertionError")
    ELSE LET out == FilterLevels(s, t, LevelNames(t))
         IN  IF Len(out.pres) = Len(t.pres)                           \* line 73
             THEN Ok(out)
             ELSE Err("AssertionError")

\* Similarity.align
AlignOp(s, t) == Subset(s, t)

\* ------------------------------------------------------------------ sort
\* stable insertion of e by its image_id
RECURSIVE InsertByImage(_, _)
InsertByImage(e, s) ==
    IF s = <<>> THEN <<e>>
    ELSE IF e["image_id"] < Head(s)["image_id"]
         THEN <<e>> \o s
         ELSE <<Head(s)>> \o InsertByImage(e, Tail(s))

RECURSIVE SortedPrefix(_, _)
SortedPrefix(pres, k) ==
    IF k = 0 THEN <<>> ELSE InsertByImage(pres[k], SortedPrefix(pres, k - 1))

\* Similarity.sort: assembly.sortby('image_id')
SortOp(a) == [a EXCEPT !.pres = SortedPrefix(a.pres, Len(a.pres))]

\* ------------------------------------------------------- adjacent selections
NoAdjacent == [name |-> "", values |-> {}]
NoSelection == [name |-> "", value |-> 0]

RECURSIVE SortedSeq(_)
SortedSeq(S) ==
    IF S = {} THEN <<>>
    ELSE LET m == CHOOSE x \in S : \A y \in S : x <= y
         IN  <<m>> \o SortedSeq(S \ {m})

\* adjacent_selections (lines 101-105): one dict per combination of the unique
\* coordinate values of the dimensions outside similarity_dims; a single empty
\* dict when there is none
AdjacentSelections(adj) ==
    IF adj.name = "" THEN <<NoSelection>>
    ELSE LET vs == SortedSeq(adj.values)
         IN  [i \in 1..Len(vs) |-> [name |-> adj.name, value |-> vs[i]]]

\* variant pairing the selections by position, as zip would
PairsZipped(a1, a2) ==
    [i \in 1..Min(Len(a1), Len(a2)) |-> <<a1[i], a2[i]>>]

\* itertools.product(adjacents1, adjacents2) (line 110)
Product(a1, a2) ==
    [i \in 1..(Len(a1) * Len(a2)) |->
        <<a1[((i - 1) \div Len(a2)) + 1], a2[((i - 1) % Len(a2)) + 1]>>]

\* ------------------------------------------------------- cross_apply checks
HasDuplicates(pres) == \E i, j \in 1..Len(pres) : i < j /\ pres[i] = pres[j]

PositionOf(pres, lab) == CHOOSE i \in 1..Len(pres) : pres[i] = lab

\* A comparison a[coord] == b[coord] of two DataArrays is an xarray binary
\* operation: the operands are first aligned on the labels of their shared
\* dimension (inner join of the two presentation indexes), and the values are
\* compared label by label on what remains. Equal indexes need no alignment;
\* unequal indexes cannot be aligned when one holds a label twice.
ComparedEqual(a, b, coord) ==
    LET joined == Range(a.pres) \cap Range(b.pres)
        val(x, lab) == IF coord = "presentation" THEN x.pres[PositionOf(x.pres, lab)]
                       ELSE x.pres[PositionOf(x.pres, lab)][coord]
    IN  \A lab \in joined : val(a, lab) = val(b, lab)

\* lines 124-125
CrossCheck(a, b) ==
    IF a.pres # b.pres /\ (HasDuplicates(a.pres) \/ HasDuplicates(b.pres))
    THEN "ValueError"
    ELSE IF /\ ComparedEqual(a, b, "presentation")
            /\ ComparedEqual(a, b, "object_name")
         THEN "ok"
         ELSE "AssertionError"

\* ------------------------------------------------------- StratifiedShuffleSplit
StratValues(a) == [i \in 1..Len(a.pres) |-> a.pres[i]["object_name"]]

ClassMembers(y, c) == {i \in 1..Len(y) : y[i] = c}

NTrain(n, ratio) == (ratio[1] * n) \div ratio[2]

\* what split() raises before it yields anything: X and y of different lengths
\* (X has one row per unique presentation label, line 130), an empty side, a
\* class with a single member, or a side smaller than the number of classes
SplitError(a, ratio) ==
    LET y == StratValues(a)
        n == Len(y)
        cls == Range(y)
        ntr == NTrain(n, ratio)
    IN  \/ Cardinality(Range(a.pres)) # n
        \/ ntr = 0 \/ n - ntr = 0
        \/ \E c \in cls : Cardinality(ClassMembers(y, c)) < 2
        \/ ntr < Cardinality(cls) \/ n - ntr < Cardinality(cls)

\* the partitions split() can yield: train of floor(ratio * n) indices, test
\* its complement, each class in train in proportion (within rounding)
Partitions(y, ratio) ==
    LET n == Len(y)
        ntr == NTrain(n, ratio)
        lo(c) == (ntr * Cardinality(ClassMembers(y, c))) \div n
        exact(c) == (ntr * Cardinality(ClassMembers(y, c))) % n = 0
    IN  {[train |-> tr, test |-> (1..n) \ tr] : tr \in
            {s \in SUBSET (1..n) :
                /\ Cardinality(s) = ntr
                /\ \A c \in Range(y) :
                     LET k == Cardinality(s \cap ClassMembers(y, c))
                     IN  k = lo(c) \/ (~exact(c) /\ k = lo(c) + 1)}}

\* cross_validation_values[indices] (line 132): the target's presentation
\* labels at the given positions
TakeValues(t, idx) ==
    LET keep == SortedSeq(idx)
    IN  [t EXCEPT !.pres = [i \in 1..Len(keep) |-> t.pres[keep[i]]]]

\* lines 132-136
SplitSubsets(s, t, p) ==
    LET train_values == TakeValues(t, p.train)
        test_values == TakeValues(t, p.test)
    IN  [train_source |-> Subset(s, train_values),
         train_target |-> Subset(t, train_values),
         test_source |-> Subset(s, test_values),
         test_target |-> Subset(t, test_values)]

NoSubsets == [train_source |-> None, train_target |-> None,
              test_source |-> None, test_target |-> None]

\* ------------------------------------------------------- per-split protocol
ImageIds(a) == [i \in 1..Len(a.pres) |-> a.pres[i]["image_id"]]

\* all(x == y for x, y in zip(a, b))
ZipAllEqual(a, b) == \A i \in 1..Min(Len(a), Len(b)) : a[i] = b[i]

NoIds == [set |-> FALSE, ids |-> <<>>, by |-> <<0, -1>>]

\* fit_values is abstract; what a concrete measure can learn is a function of
\* the two training assemblies it is given
FitValues(train_source, train_target) ==
    [set |-> TRUE, source |-> train_source.pres, target |-> train_target.pres]

NoFit == [set |-> FALSE, source |-> <<>>, target |-> <<>>]

\* predict_values is abstract; it sees test_source and the instance's state
PredictValues(state, test_source) == [mapping |-> state, input |-> test_source.pres]

\* lines 213-232: the coordinates of test_source, neuroid_id replaced by
\* self._target_neuroid_ids
PredictOp(ids, state, test_source) ==
    [pres |-> test_source.pres, neuroid_id |-> ids.ids, ids_by |-> ids.by,
     values |-> PredictValues(state, test_source)]

NoPrediction == [pres |-> <<>>, neuroid_id |-> <<>>, ids_by |-> <<0, -1>>,
                 values |-> PredictValues(NoFit, [pres |-> <<>>])]

\* lines 241-247: the median over neuroids of the correlation of prediction
\* and target: a function of the two
CompareValue(pred, test_target) ==
    [kind |-> "compare", a |-> pred.values, b |-> test_target.pres]

\* NonparametricCVSimilarity.apply_split: compute(train_source, train_target)
ComputeValue(train_source, train_target) ==
    [kind |-> "compute", a |-> train_source.pres, b |-> train_target.pres]

\* ------------------------------------------------------- cross_apply result
\* names that are coordinates of both slices (lines 144-145); the coordinates
\* of the multi-dimensional dims are ignored by collect_coords and left out
DuplicateCoords(sel1, sel2) ==
    IF sel1.name # "" /\ sel1.name = sel2.name THEN {sel1.name} ELSE {}

\* collect_coords(assembly, kind, ignore_dims, rename_coords_list): the scalar
\* coordinates the slice kept of its adjacent selection, one named in
\* rename_coords_list renamed after its side
CollectCoords(sel, kind, rename) ==
    IF sel.name = "" THEN {}
    ELSE {[name |-> sel.name,
           suffix |-> IF sel.name \in rename THEN kind ELSE "",
           value |-> sel.value]}

\* variant numbering the splits from 1
CrossResultSplitsFromOne(scores, pair) ==
    LET dup == DuplicateCoords(pair[1], pair[2])
    IN  [split |-> [i \in 1..Len(scores) |-> i],
         values |-> scores,
         coords |-> CollectCoords(pair[1], "left", dup)
                      \cup CollectCoords(pair[2], "right", dup),
         call |-> pair]

\* lines 139-151: the tensor cross_apply returns: the split scores along
\* 'split' with the coordinates 0..n-1, and the scalar coordinates of the slices
CrossResult(scores, pair) ==
    LET dup == DuplicateCoords(pair[1], pair[2])
    IN  [split |-> [i \in 1..Len(scores) |-> i - 1],
         values |-> scores,
         coords |-> CollectCoords(pair[1], "left", dup)
                      \cup CollectCoords(pair[2], "right", dup),
         call |-> pair]

\* ------------------------------------------------------- expand and merge
\* line 114: source dims + target dims + ('split',)
AssemblyDims(a1, a2) ==
    {"presentation", "neuroid", "split"} \cup ({a1.name, a2.name} \ {""})

\* expand (lines 158-171): a scalar coordinate named like a target dim becomes
\* a dimension of length one; the others stay scalar coordinates
Expand(sim, target_dims) ==
    [dimcoords |-> {c \in sim.coords : c.suffix = "" /\ c.name \in target_dims},
     scalars |-> {c \in sim.coords : ~(c.suffix = "" /\ c.name \in target_dims)},
     split |-> sim.split,
     values |-> sim.values]

NaN == [kind |-> "nan", a |-> <<>>, b |-> <<>>]

\* xr.merge refuses operands that disagree on a scalar coordinate or on the
\* value at a position both hold
MergeConflict(ex) ==
    \E i, j \in 1..Len(ex) :
        /\ i < j
        /\ \/ \E c \in ex[i].scalars, d \in ex[j].scalars :
                 c.name = d.name /\ c.suffix = d.suffix /\ c.value # d.value
           \/ /\ ex[i].dimcoords = ex[j].dimcoords
              /\ \E k \in 1..Min(Len(ex[i].values), Len(ex[j].values)) :
                    ex[i].values[k] # ex[j].values[k]

\* xr.merge (line 117): the outer join of the operands' dimension coordinates;
\* a position no operand holds is NaN
MergeOp(ex) ==
    LET all == UNION {ex[i].dimcoords : i \in 1..Len(ex)}
        names == {c.name : c \in all}
        combos == {cs \in SUBSET all :
                     \A n \in names : Cardinality({c \in cs : c.name = n}) = 1}
        splits == UNION {Range(ex[i].split) : i \in 1..Len(ex)}
        positions == {[coords |-> cs, split |-> k] : cs \in combos, k \in splits}
        holders(p) == {i \in 1..Len(ex) :
                         ex[i].dimcoords = p.coords /\ p.split \in Range(ex[i].split)}
    IN  [dims |-> names \cup {"split"},
         cells |-> [p \in positions |->
                      IF holders(p) = {} THEN NaN
                      ELSE ex[CHOOSE i \in holders(p) : TRUE].values[p.split + 1]],
         writers |-> [p \in positions |-> holders(p)]]

NoMerged == [dims |-> {}, cells |-> <<>>, writers |-> <<>>]

\* ------------------------------------------------------------------ actions
Fail(e) ==
    /\ pc' = "failed"
    /\ failure' = e

\* Similarity.__call__, line 38
Align ==
    /\ pc = "align"
    /\ aligned' = AlignOp(source, target)
    /\ IF aligned'.ok
       THEN /\ src' = aligned'.value
            /\ pc' = "sort"
            /\ UNCHANGED failure
       ELSE /\ Fail(aligned'.error)
            /\ UNCHANGED src
    /\ UNCHANGED <<inputs, extras, tgt, pairs, sliceIdx, similarities, merged, score, cvVars, fitVars>>

\* line 39
Sort ==
    /\ pc = "sort"
    /\ src' = SortOp(src)
    /\ tgt' = SortOp(tgt)
    /\ pc' = "apply"
    /\ UNCHANGED <<inputs, extras, aligned, pairs, sliceIdx, similarities, merged, score,
                   cvVars, fitVars, failure>>

\* apply, lines 101-110: the list of slices to hand to cross_apply
ApplyStart ==
    /\ pc = "apply"
    /\ pairs' = Product(AdjacentSelections(srcAdj), AdjacentSelections(tgtAdj))
    /\ sliceIdx' = 1
    /\ pc' = "cross_apply"
    /\ UNCHANGED <<inputs, extras, aligned, src, tgt, similarities, merged, score,
                   cvVars, fitVars, failure>>

\* cross_apply, lines 124-128
CrossApplyStart ==
    /\ pc = "cross_apply"
    /\ LET r == CrossCheck(src, tgt)
       IN  IF r = "ok"
           THEN /\ split_iterator' = 0
                /\ split_scores' = <<>>
                /\ partitionLog' = <<>>
                /\ pc' = "split"
                /\ UNCHANGED failure
           ELSE /\ Fail(r)
                /\ UNCHANGED <<split_iterator, split_scores, partitionLog>>
    /\ UNCHANGED <<inputs, extras, callVars, partition, subsets, fitVars>>

FirstStep == IF cfg.protocol = "parametric" THEN "fit" ELSE "compute"

\* cross_apply, lines 129-136: the next partition and its four subsets
GenerateSplit ==
    /\ pc = "split"
    /\ split_iterator < cfg.n_splits
    /\ IF SplitError(src, cfg.ratio)
       THEN /\ Fail("ValueError")
            /\ UNCHANGED <<partition, subsets, partitionLog, opLog>>
       ELSE \E p \in Partitions(StratValues(src), cfg.ratio) :
              LET ss == SplitSubsets(src, tgt, p)
              IN  /\ partition' = p
                  /\ partitionLog' = Append(partitionLog, p)
                  /\ opLog' = <<>>
                  /\ IF \A f \in DOMAIN ss : ss[f].ok
                     THEN /\ subsets' = [f \in DOMAIN ss |-> ss[f].value]
                          /\ pc' = FirstStep
                          /\ UNCHANGED failure
                     ELSE /\ Fail("AssertionError")
                          /\ UNCHANGED subsets
    /\ UNCHANGED <<inputs, extras, callVars, split_iterator, split_scores,
                   target_neuroid_ids, fitted, prediction>>

\* variant of fit that keeps neuroid ids once recorded
FitKeepsRecordedIds ==
    /\ pc = "fit"
    /\ IF ZipAllEqual(ImageIds(subsets.train_source), ImageIds(subsets.train_target))
       THEN /\ target_neuroid_ids' =
                  IF target_neuroid_ids.set THEN target_neuroid_ids
                  ELSE [set |-> TRUE, ids |-> subsets.train_target.neuroid_id,
                        by |-> <<sliceIdx, split_iterator>>]
            /\ fitted' = FitValues(subsets.train_source, subsets.train_target)
            /\ opLog' = Append(opLog, "fit")
            /\ pc' = "predict"
            /\ UNCHANGED failure
       ELSE /\ Fail("AssertionError")
            /\ UNCHANGED <<target_neuroid_ids, fitted, opLog>>
    /\ UNCHANGED <<inputs, extras, callVars, cvVars, prediction>>

\* ParametricCVSimilarity.fit
Fit ==
    /\ pc = "fit"
    /\ IF ZipAllEqual(ImageIds(subsets.train_source), ImageIds(subsets.train_target))
       THEN /\ target_neuroid_ids' = [set |-> TRUE,
                                      ids |-> subsets.train_target.neuroid_id,
                                      by |-> <<sliceIdx, split_iterator>>]
            /\ fitted' = FitValues(subsets.train_source, subsets.train_target)
            /\ opLog' = Append(opLog, "fit")
            /\ pc' = "predict"
            /\ UNCHANGED failure
       ELSE /\ Fail("AssertionError")
            /\ UNCHANGED <<target_neuroid_ids, fitted, opLog>>
    /\ UNCHANGED <<inputs, extras, callVars, cvVars, prediction>>

\* ParametricCVSimilarity.predict
Predict ==
    /\ pc = "predict"
    /\ IF target_neuroid_ids.set
       THEN /\ prediction' = PredictOp(target_neuroid_ids, fitted, subsets.test_source)
            /\ opLog' = Append(opLog, "predict")
            /\ pc' = "compare"
            /\ UNCHANGED failure
       ELSE /\ Fail("ValueError")
            /\ UNCHANGED <<prediction, opLog>>
    /\ UNCHANGED <<inputs, extras, callVars, cvVars, target_neuroid_ids, fitted>>

\* variant of compare_prediction that records NaN for a split whose checks fail
CompareSkipsFailedSplit ==
    /\ pc = "compare"
    /\ IF /\ ZipAllEqual(ImageIds(prediction), ImageIds(subsets.test_target))
          /\ ZipAllEqual(prediction.neuroid_id, subsets.test_target.neuroid_id)
       THEN split_scores' = Append(split_scores,
                                   CompareValue(prediction, subsets.test_target))
       ELSE split_scores' = Append(split_scores, NaN)
    /\ split_iterator' = split_iterator + 1
    /\ opLog' = Append(opLog, "compare")
    /\ pc' = "split"
    /\ UNCHANGED <<inputs, extras, callVars, partition, subsets, partitionLog,
                   target_neuroid_ids, fitted, prediction, failure>>

\* ParametricCVSimilarity.compare_prediction, and line 138
Compare ==
    /\ pc = "compare"
    /\ IF /\ ZipAllEqual(ImageIds(prediction), ImageIds(subsets.test_target))
          /\ ZipAllEqual(prediction.neuroid_id, subsets.test_target.neuroid_id)
       THEN /\ split_scores' = Append(split_scores,
                                      CompareValue(prediction, subsets.test_target))
            /\ split_iterator' = split_iterator + 1
            /\ opLog' = Append(opLog, "compare")
            /\ pc' = "split"
            /\ UNCHANGED failure
       ELSE /\ Fail("AssertionError")
            /\ UNCHANGED <<split_scores, split_iterator, opLog>>
    /\ UNCHANGED <<inputs, extras, callVars, partition, subsets, partitionLog,
                   target_neuroid_ids, fitted, prediction>>

\* NonparametricCVSimilarity.apply_split, and line 138
Compute ==
    /\ pc = "compute"
    /\ split_scores' = Append(split_scores,
                              ComputeValue(subsets.train_source, subsets.train_target))
    /\ split_iterator' = split_iterator + 1
    /\ opLog' = Append(opLog, "compute")
    /\ pc' = "split"
    /\ UNCHANGED <<inputs, extras, callVars, partition, subsets, partitionLog,
                   target_neuroid_ids, fitted, prediction, failure>>

\* cross_apply, lines 140-152, and the next element of apply's comprehension
CrossReturn ==
    /\ pc = "split"
    /\ split_iterator = cfg.n_splits
    /\ similarities' = Append(similarities, CrossResult(split_scores, pairs[sliceIdx]))
    /\ IF sliceIdx < Len(pairs)
       THEN /\ sliceIdx' = sliceIdx + 1
            /\ pc' = "cross_apply"
       ELSE /\ pc' = "merge"
            /\ UNCHANGED sliceIdx
    /\ UNCHANGED <<inputs, extras, aligned, src, tgt, pairs, merged, score, cvVars, fitVars, failure>>

\* apply, lines 111-118
Merge ==
    /\ pc = "merge"
    /\ LET ex == [i \in 1..Len(similarities) |->
                    Expand(similarities[i], AssemblyDims(srcAdj, tgtAdj))]
       IN  IF \E i \in 2..Len(similarities) :
                 Len(similarities[i].values) # Len(similarities[1].values)
           THEN Fail("AssertionError") /\ UNCHANGED merged
           ELSE IF MergeConflict(ex)
                THEN Fail("MergeError") /\ UNCHANGED merged
                ELSE /\ merged' = MergeOp(ex)
                     /\ pc' = "score"
                     /\ UNCHANGED failure
    /\ UNCHANGED <<inputs, extras, aligned, src, tgt, pairs, sliceIdx, similarities, score,
                   cvVars, fitVars>>

\* Similarity.score, Score.__init__: the values the Score keeps
ScoreStep ==
    /\ pc = "score"
    /\ score' = [values |-> merged.cells, dims |-> merged.dims]
    /\ pc' = "done"
    /\ UNCHANGED <<inputs, extras, aligned, src, tgt, pairs, sliceIdx, similarities, merged,
                   cvVars, fitVars, failure>>

Next ==
    \/ Align \/ Sort \/ ApplyStart \/ CrossApplyStart \/ GenerateSplit
    \/ Fit \/ Predict \/ Compare \/ Compute \/ CrossReturn \/ Merge \/ ScoreStep

\* ------------------------------------------------------------------ inputs
TrainRatios == {<<1, 2>>, <<3, 4>>}
Protocols == {"parametric", "nonparametric"}
SourceNeuroids == <<"m1">>
TargetNeuroids == <<"n1", "n2">>

\* object_name alternates with the image
ObjectOf(img) == ((img - 1) % 2) + 1

\* the images 1..d in presentation order, each presented one or more times
ImageSequences(n) ==
    {s \in [1..n -> 1..n] :
        /\ n > 0 => s[1] = 1
        /\ \A i \in 1..(n - 1) : s[i + 1] \in {s[i], s[i] + 1}}

\* one entry per image of imgs; the k-th presentation of an image is repetition k
Presentations(imgs) ==
    [i \in 1..Len(imgs) |->
        Entry(imgs[i], ObjectOf(imgs[i]),
              Cardinality({j \in 1..i : imgs[j] = imgs[i]}))]

Targets(n) == {Assembly(Levels, Presentations(s), TargetNeuroids) : s \in ImageSequences(n)}

\* the candidate's assembly: the target's presentations, or those with one
\* entry carrying another object_name or another image_id
Sources(t) ==
    {Assembly(Levels, t.pres, SourceNeuroids)}
    \cup {Assembly(Levels, [t.pres EXCEPT ![i]["object_name"] = 3 - @], SourceNeuroids) :
            i \in 1..Len(t.pres)}
    \cup {Assembly(Levels, [t.pres EXCEPT ![i]["image_id"] = img], SourceNeuroids) :
            i \in 1..Len(t.pres), img \in 1..Len(t.pres)}

Configs == [n_splits : 1..NSplits, ratio : TrainRatios, protocol : Protocols]

Adjacent(name, n) == IF n = 0 THEN NoAdjacent ELSE [name |-> name, values |-> 1..n]

NoRun == [partitions |-> <<>>, similarities |-> <<>>]
NoCeil == [score |-> <<>>, ceiling |-> <<>>, split_scores |-> <<>>, result |-> None]

InitRun ==
    /\ pc = "align"
    /\ aligned = None
    /\ src = source
    /\ tgt = target
    /\ pairs = <<>>
    /\ sliceIdx = 0
    /\ split_iterator = 0
    /\ partition = [train |-> {}, test |-> {}]
    /\ subsets = NoSubsets
    /\ target_neuroid_ids = NoIds
    /\ fitted = NoFit
    /\ prediction = NoPrediction
    /\ opLog = <<>>
    /\ split_scores = <<>>
    /\ partitionLog = <<>>
    /\ similarities = <<>>
    /\ merged = NoMerged
    /\ score = None
    /\ failure = ""
    /\ runNo = 1
    /\ prevRun = NoRun
    /\ tasks = <<>>
    /\ ceil = NoCeil

Init ==
    /\ target \in Targets(PresLen)
    /\ source \in Sources(target)
    /\ cfg \in Configs
    /\ srcAdj = NoAdjacent
    /\ tgtAdj = NoAdjacent
    /\ InitRun

Spec == Init /\ [][Next]_vars

\* ------------------------------------------- decomposition specification
\* three presentations of one class (image 1 twice, image 3 once), an
\* adjacent dimension on either side, both with the same name or not
ApplyTarget == Assembly(Levels, <<Entry(1, 1, 1), Entry(1, 1, 2), Entry(3, 1, 1)>>,
                        TargetNeuroids)

InitApply ==
    /\ target = ApplyTarget
    /\ source \in Sources(target)
    /\ cfg \in {c \in Configs : c.n_splits = 1 /\ c.ratio = <<1, 2>>}
    /\ srcAdj \in {Adjacent("layer", n) : n \in 0..MaxAdjacent}
    /\ tgtAdj \in {Adjacent(name, n) : name \in {"layer", "time_bin"}, n \in 0..MaxAdjacent}
    /\ InitRun

SpecApply == InitApply /\ [][Next]_vars

\* ------------------------------------------------- repeated-call specification
\* a second __call__ on the same similarity object with the same assemblies:
\* the locals start afresh, the object keeps its state (self._split_strategy,
\* built without random_state at lines 88-89; self._target_neuroid_ids)
Rerun ==
    /\ pc = "done"
    /\ runNo = 1
    /\ runNo' = 2
    /\ prevRun' = [partitions |-> partitionLog, similarities |-> similarities]
    /\ pc' = "align"
    /\ aligned' = None
    /\ src' = source
    /\ tgt' = target
    /\ pairs' = <<>>
    /\ sliceIdx' = 0
    /\ split_iterator' = 0
    /\ partition' = [train |-> {}, test |-> {}]
    /\ subsets' = NoSubsets
    /\ prediction' = NoPrediction
    /\ opLog' = <<>>
    /\ split_scores' = <<>>
    /\ partitionLog' = <<>>
    /\ similarities' = <<>>
    /\ merged' = NoMerged
    /\ score' = None
    /\ UNCHANGED <<inputs, target_neuroid_ids, fitted, failure, tasks, ceil>>

InitRuns ==
    /\ target \in Targets(PresLen)
    /\ source = [target EXCEPT !.neuroid_id = SourceNeuroids]
    /\ cfg \in {c \in Configs : c.n_splits = 1}
    /\ srcAdj = NoAdjacent
    /\ tgtAdj = NoAdjacent
    /\ InitRun

NextRuns == Next \/ Rerun

SpecRuns == InitRuns /\ [][NextRuns]_vars

\* ------------------------------------------------- alignment specification
LevelSets == SUBSET Levels \ {{}}

InitSubset ==
    /\ \E ls \in LevelSets, lt \in LevelSets :
          /\ source \in {Assembly(ls, p, SourceNeuroids) :
                            p \in SeqsUpTo(EntriesOf(ls, SubsetLabels), MaxSubsetLen)}
          /\ target \in {Assembly(lt, p, TargetNeuroids) :
                            p \in SeqsUpTo(EntriesOf(lt, SubsetLabels), MaxSubsetLen)}
    /\ cfg \in {c \in Configs : c.n_splits = 1 /\ c.protocol = "parametric"
                                  /\ c.ratio = <<1, 2>>}
    /\ srcAdj = NoAdjacent
    /\ tgtAdj = NoAdjacent
    /\ InitRun

NextSubset == Align

SpecSubset == InitSubset /\ [][NextSubset]_vars

\* ------------------------------------------------- interleaved-folds specification
\* The folds of one slice run as tasks on the one similarity object, each
\* calling fit, predict, compare in its own order; a call is one step.
IdleTask == [pc |-> "idle", partition |-> [train |-> {}, test |-> {}],
             subsets |-> NoSubsets, prediction |-> NoPrediction,
             value |-> NaN, clean |-> FALSE]

\* lines 132-136 for the fold of task t
ParStart(t) ==
    /\ pc = "parallel"
    /\ tasks[t].pc = "idle"
    /\ IF SplitError(src, cfg.ratio)
       THEN tasks' = [tasks EXCEPT ![t].pc = "failed"]
       ELSE \E p \in Partitions(StratValues(src), cfg.ratio) :
              LET ss == SplitSubsets(src, tgt, p)
              IN  IF \A f \in DOMAIN ss : ss[f].ok
                  THEN tasks' = [tasks EXCEPT ![t].pc = "fit", ![t].partition = p,
                                    ![t].subsets = [f \in DOMAIN ss |-> ss[f].value]]
                  ELSE tasks' = [tasks EXCEPT ![t].pc = "failed", ![t].partition = p]
    /\ UNCHANGED <<pc, inputs, callVars, cvVars, fitVars, failure, runNo, prevRun, ceil>>

\* ParametricCVSimilarity.fit called by task t; `clean` notes, for a task
\* between its fit and its predict, that no other task's fit has run since
ParFit(t) ==
    /\ pc = "parallel"
    /\ tasks[t].pc = "fit"
    /\ IF ZipAllEqual(ImageIds(tasks[t].subsets.train_source),
                      ImageIds(tasks[t].subsets.train_target))
       THEN /\ target_neuroid_ids' = [set |-> TRUE,
                                      ids |-> tasks[t].subsets.train_target.neuroid_id,
                                      by |-> <<sliceIdx, t - 1>>]
            /\ fitted' = FitValues(tasks[t].subsets.train_source,
                                   tasks[t].subsets.train_target)
            /\ tasks' = [u \in DOMAIN tasks |->
                            IF u = t THEN [tasks[u] EXCEPT !.pc = "predict", !.clean = TRUE]
                            ELSE IF tasks[u].pc = "predict"
                                 THEN [tasks[u] EXCEPT !.clean = FALSE]
                                 ELSE tasks[u]]
       ELSE /\ tasks' = [tasks EXCEPT ![t].pc = "failed"]
            /\ UNCHANGED <<target_neuroid_ids, fitted>>
    /\ UNCHANGED <<pc, inputs, callVars, cvVars, prediction, opLog, failure,
                   runNo, prevRun, ceil>>

\* ParametricCVSimilarity.predict called by task t
ParPredict(t) ==
    /\ pc = "parallel"
    /\ tasks[t].pc = "predict"
    /\ tasks' = [tasks EXCEPT
                    ![t].prediction = PredictOp(target_neuroid_ids, fitted,
                                                tasks[t].subsets.test_source),
                    ![t].pc = "compare"]
    /\ UNCHANGED <<pc, inputs, callVars, cvVars, fitVars, failure, runNo, prevRun, ceil>>

\* ParametricCVSimilarity.compare_prediction called by task t
ParCompare(t) ==
    /\ pc = "parallel"
    /\ tasks[t].pc = "compare"
    /\ IF /\ ZipAllEqual(ImageIds(tasks[t].prediction),
                         ImageIds(tasks[t].subsets.test_target))
          /\ ZipAllEqual(tasks[t].prediction.neuroid_id,
                         tasks[t].subsets.test_target.neuroid_id)
       THEN tasks' = [tasks EXCEPT
                        ![t].value = CompareValue(tasks[t].prediction,
                                                  tasks[t].subsets.test_target),
                        ![t].pc = "done"]
       ELSE tasks' = [tasks EXCEPT ![t].pc = "failed"]
    /\ UNCHANGED <<pc, inputs, callVars, cvVars, fitVars, failure, runNo, prevRun, ceil>>

\* the state cross_apply is in when it enters its loop, for assemblies that
\* are aligned and sorted
ParTarget == Assembly(Levels, Presentations(<<1, 3, 5>>), TargetNeuroids)

InitPar ==
    /\ target = ParTarget
    /\ source = [target EXCEPT !.neuroid_id = SourceNeuroids]
    /\ cfg \in {c \in Configs : c.n_splits = NSplits /\ c.protocol = "parametric"
                                  /\ c.ratio = <<1, 2>>}
    /\ srcAdj = NoAdjacent
    /\ tgtAdj = NoAdjacent
    /\ pc = "parallel"
    /\ aligned = AlignOp(source, target)
    /\ src = SortOp(source)
    /\ tgt = SortOp(target)
    /\ pairs = Product(AdjacentSelections(srcAdj), AdjacentSelections(tgtAdj))
    /\ sliceIdx = 1
    /\ split_iterator = 0
    /\ partition = [train |-> {}, test |-> {}]
    /\ subsets = NoSubsets
    /\ target_neuroid_ids = NoIds
    /\ fitted = NoFit
    /\ prediction = NoPrediction
    /\ opLog = <<>>
    /\ split_scores = <<>>
    /\ partitionLog = <<>>
    /\ similarities = <<>>
    /\ merged = NoMerged
    /\ score = None
    /\ failure = ""
    /\ runNo = 1
    /\ prevRun = NoRun
    /\ tasks = [t \in 1..cfg.n_splits |-> IdleTask]
    /\ ceil = NoCeil

NextPar ==
    \/ \E t \in 1..NSplits : ParStart(t)
    \/ \E t \in 1..NSplits : ParFit(t)
    \/ \E t \in 1..NSplits : ParPredict(t)
    \/ \E t \in 1..NSplits : ParCompare(t)

SpecPar == InitPar /\ [][NextPar]_vars

\* ---------------------------------------------------- ceil_score specification
\* a raw per-split tensor is a sequence of [split, value], split labels unique
SplitIds == {0, 1, 2}
ScoreValues == {6, 12}
CeilingValues == {1, 4}

SplitsOf(raw) == {raw[i].split : i \in 1..Len(raw)}

\* raw.sel(split=split): the value at the position labelled split
Sel(raw, split) == raw[CHOOSE i \in 1..Len(raw) : raw[i].split = split].value

\* np.sqrt on the ceilings drawn, all perfect squares
Sqrt(c) == CHOOSE r \in 0..c : r * r = c

\* variant of the assertion that only asks the ceiling's splits to be among the score's
CeilingSplitsInScore(s, c) == SplitsOf(c) \subseteq SplitsOf(s)

\* the assertion of line 37
SameSplits(s, c) == SplitsOf(s) = SplitsOf(c)

\* lines 39-45: one ceiled entry per split of the ceiling, in the ceiling's order
CeiledSplitScores(s, c) ==
    [i \in 1..Len(c) |->
        [split |-> c[i].split,
         value |-> Sel(s, c[i].split) \div Sqrt(Sel(c, c[i].split))]]

RECURSIVE SumValues(_)
SumValues(raw) == IF raw = <<>> THEN 0 ELSE raw[1].value + SumValues(Tail(raw))

\* apply_aggregate with the metric's aggregation: the centre over the splits,
\* kept as sum and count
ApplyAggregate(raw) == [sum |-> SumValues(raw), n |-> Len(raw)]

\* DicarloRajalingham2018I2n.ceil_score
CeilScore ==
    /\ pc = "ceil_score"
    /\ IF SameSplits(ceil.score, ceil.ceiling)
       THEN LET ss == CeiledSplitScores(ceil.score, ceil.ceiling)
            IN  /\ ceil' = [ceil EXCEPT !.split_scores = ss,
                                        !.result = [center |-> ApplyAggregate(ss),
                                                    raw |-> ceil.score,
                                                    ceiling |-> ceil.ceiling]]
                /\ pc' = "ceiled"
                /\ UNCHANGED failure
       ELSE /\ pc' = "failed"
            /\ failure' = "AssertionError"
            /\ UNCHANGED ceil
    /\ UNCHANGED <<inputs, callVars, cvVars, fitVars, runNo, prevRun, tasks>>

RawTensors(values) ==
    {r \in UNION {[1..k -> [split : SplitIds, value : values]] : k \in 1..MaxCeilSplits} :
        \A i, j \in 1..Len(r) : i # j => r[i].split # r[j].split}

InitCeil ==
    /\ target = ApplyTarget
    /\ source = [target EXCEPT !.neuroid_id = SourceNeuroids]
    /\ cfg \in {c \in Configs : c.n_splits = 1 /\ c.protocol = "parametric"
                                  /\ c.ratio = <<1, 2>>}
    /\ srcAdj = NoAdjacent
    /\ tgtAdj = NoAdjacent
    /\ pc = "ceil_score"
    /\ aligned = None
    /\ src = source
    /\ tgt = target
    /\ pairs = <<>>
    /\ sliceIdx = 0
    /\ split_iterator = 0
    /\ partition = [train |-> {}, test |-> {}]
    /\ subsets = NoSubsets
    /\ target_neuroid_ids = NoIds
    /\ fitted = NoFit
    /\ prediction = NoPrediction
    /\ opLog = <<>>
    /\ split_scores = <<>>
    /\ partitionLog = <<>>
    /\ similarities = <<>>
    /\ merged = NoMerged
    /\ score = None
    /\ failure = ""
    /\ runNo = 1
    /\ prevRun = NoRun
    /\ tasks = <<>>
    /\ \E s \in RawTensors(ScoreValues), c \in RawTensors(CeilingValues) :
          ceil = [NoCeil EXCEPT !.score = s, !.ceiling = c]

NextCeil == CeilScore

SpecCeil == InitCeil /\ [][NextCeil]_vars

\* ------------------------------------------------------------------ C1
CommonLevels(s, t) == s.levels \cap t.levels

InTarget(e, t, l) == \E j \in 1..Len(t.pres) : t.pres[j][l] = e[l]

\* the entries of the source, in its order, whose label on every level present
\* in both occurs among the target's labels for that level
Retained(s, t) ==
    SelectSeq(s.pres, LAMBDA e : \A l \in CommonLevels(s, t) : InTarget(e, t, l))

\* C1: when source and target share a level, align returns exactly when the
\* retained entries are as many as the target's entries, and then returns the
\* source entries (in source order) whose label on every common level occurs
\* in the target; otherwise the call fails by assertion and returns nothing.
C1_AlignExact ==
    (aligned # None /\ CommonLevels(source, target) # {}) =>
        IF Len(Retained(source, target)) = Len(target.pres)
        THEN /\ aligned.ok
             /\ aligned.value.pres = Retained(source, target)
             /\ Len(aligned.value.pres) = Len(target.pres)
             /\ aligned.value.levels = source.levels
             /\ src = aligned.value
             /\ pc = "sort"
        ELSE /\ ~aligned.ok
             /\ aligned.error = "AssertionError"
             /\ aligned.value = None
             /\ pc = "failed"

\* an alignment over two common levels that dropped a source entry and returned
C1_Witness ==
    /\ aligned # None
    /\ aligned.ok
    /\ Len(source.pres) > Len(target.pres)
    /\ Len(target.pres) > 0
    /\ Cardinality(CommonLevels(source, target)) >= 2

\* ------------------------------------------------------------------ C2
\* a partition has been generated for the current iteration of the loop
SplitInHand == Len(partitionLog) = split_iterator + 1

AtIndices(a, idx) ==
    LET keep == SortedSeq(idx) IN [i \in 1..Len(keep) |-> a.pres[keep[i]]]

ExactSubsets ==
    /\ subsets.train_source # None
    /\ subsets.train_source.pres = AtIndices(src, partition.train)
    /\ subsets.train_target.pres = AtIndices(tgt, partition.train)
    /\ subsets.test_source.pres = AtIndices(src, partition.test)
    /\ subsets.test_target.pres = AtIndices(tgt, partition.test)
    /\ partition.train \cap partition.test = {}

\* C2 (as claimed): for every partition cross_apply generates, also when
\* entries share a value on one level of the comparison axis, apply_split is
\* handed exactly the entries at train_indices and at test_indices of source
\* and target, and no entry is on both sides.
C2_IndexSubsets ==
    (src.pres = tgt.pres /\ SplitInHand) => ExactSubsets

\* what the code does keep: subsets that reach apply_split are the index subsets
C2_HandedSubsetsExact ==
    (src.pres = tgt.pres /\ SplitInHand /\ pc \in {"fit", "predict", "compare", "compute"})
        => ExactSubsets

\* ------------------------------------------------------------------ C6
\* source and target agree, entry for entry, on coord
AgreeAt(a, b, coord) ==
    /\ Len(a.pres) = Len(b.pres)
    /\ \A i \in 1..Len(a.pres) :
          IF coord = "presentation" THEN a.pres[i] = b.pres[i]
          ELSE a.pres[i][coord] = b.pres[i][coord]

\* a partition has been generated, or apply_split has been called
PastCrossCheck ==
    partitionLog # <<>> \/ opLog # <<>> \/ split_scores # <<>> \/ similarities # <<>>

\* C6 (as claimed): cross_apply generates a partition and calls apply_split
\* only when source and target agree at every position on the presentation
\* coordinate and on object_name.
C6_RejectsDisagreement ==
    PastCrossCheck => (AgreeAt(src, tgt, "presentation") /\ AgreeAt(src, tgt, "object_name"))

\* ------------------------------------------------------------------ C8
\* C8: a call has no partial outcome: a Score exists only in a call that ran
\* to its end without a failure and evaluated every split of every slice; a
\* call that failed stopped there and holds no Score.
C8_NoPartialFailure ==
    /\ score # None =>
          /\ pc = "done"
          /\ failure = ""
          /\ Len(similarities) = Len(pairs)
          /\ Len(pairs) = Len(AdjacentSelections(srcAdj)) * Len(AdjacentSelections(tgtAdj))
          /\ \A i \in 1..Len(similarities) : Len(similarities[i].values) = cfg.n_splits
          /\ \A p \in DOMAIN score.values : score.values[p] # NaN
    /\ failure # "" => (pc = "failed" /\ score = None)
    /\ pc = "failed" => (failure # "" /\ score = None)
    /\ pc = "done" => score # None

\* a call that failed in a later split, after a split had been evaluated
C8_Witness ==
    /\ pc = "failed"
    /\ Len(split_scores) >= 1
    /\ score = None

\* ------------------------------------------------------------------ C9
\* apply_split on the partition p of the slice
ApplySplitValue(a, b, p, protocol) ==
    LET ss == SplitSubsets(a, b, p)
    IN  IF protocol = "parametric"
        THEN [kind |-> "compare",
              a |-> [mapping |-> [set |-> TRUE, source |-> ss.train_source.value.pres,
                                  target |-> ss.train_target.value.pres],
                     input |-> ss.test_source.value.pres],
              b |-> ss.test_target.value.pres]
        ELSE [kind |-> "compute", a |-> ss.train_source.value.pres,
              b |-> ss.train_target.value.pres]

JustReturned ==
    /\ similarities # <<>>
    /\ Len(similarities) = sliceIdx - (IF pc = "cross_apply" THEN 1 ELSE 0)
    /\ pc \in {"cross_apply", "merge"}

\* C9: every tensor cross_apply returns has the split coordinates 0..n-1 for
\* the configured n and one value per split, and the value at split k of the
\* tensor just returned is apply_split's result on the k-th partition generated.
C9_SplitAxis ==
    /\ \A i \in 1..Len(similarities) :
          /\ Len(similarities[i].values) = cfg.n_splits
          /\ similarities[i].split = [k \in 1..cfg.n_splits |-> k - 1]
    /\ JustReturned =>
          /\ Len(partitionLog) = cfg.n_splits
          /\ \A k \in 1..cfg.n_splits :
                similarities[Len(similarities)].values[k]
                    = ApplySplitValue(src, tgt, partitionLog[k], cfg.protocol)

\* a tensor of NSplits values returned from two different partitions
C9_Witness ==
    /\ JustReturned
    /\ cfg.n_splits = NSplits
    /\ NSplits > 1
    /\ partitionLog[1] # partitionLog[NSplits]

\* ------------------------------------------------------------------ C10
\* C10: in the parametric protocol a split runs fit, predict, compare in that
\* order, once each, and the neuroid_id labels predict attaches are those the
\* fit of the same split of the same slice recorded.
C10_FitPredictCompare ==
    cfg.protocol = "parametric" =>
        /\ pc = "fit" => opLog = <<>>
        /\ pc = "predict" =>
              /\ opLog = <<"fit">>
              /\ target_neuroid_ids.set
              /\ target_neuroid_ids.by = <<sliceIdx, split_iterator>>
        /\ pc = "compare" =>
              /\ opLog = <<"fit", "predict">>
              /\ prediction.ids_by = <<sliceIdx, split_iterator>>
              /\ prediction.neuroid_id = subsets.train_target.neuroid_id
        /\ (pc \in {"split", "cross_apply", "merge"} /\ partitionLog # <<>>
                /\ Len(partitionLog) = split_iterator) =>
              /\ opLog = <<"fit", "predict", "compare">>
              /\ prediction.ids_by[2] = split_iterator - 1
              /\ Len(split_scores) = split_iterator

\* the second split of a slice at its compare, ids recorded by an earlier split
\* having been replaced
C10_Witness ==
    /\ cfg.protocol = "parametric"
    /\ pc = "compare"
    /\ split_iterator >= 1
    /\ prediction.ids_by = <<sliceIdx, split_iterator>>

\* ------------------------------------------------------------------ C4
\* C4 (as claimed): a second call on the same assemblies with the same
\* configuration generates the partitions of the first call and returns the
\* per-split values of the first call.
C4_SameSplitsSameScores ==
    (runNo = 2 /\ pc = "done") =>
        /\ partitionLog = prevRun.partitions
        /\ similarities = prevRun.similarities

\* ------------------------------------------------------------------ C5
SequentialValue(t) == ApplySplitValue(src, tgt, tasks[t].partition, "parametric")

\* C5 (as claimed): whatever the interleaving of the folds' fit, predict and
\* compare calls, every fold ends with the value sequential execution gives it.
C5_AnyInterleaving ==
    \A t \in DOMAIN tasks : tasks[t].pc = "done" => tasks[t].value = SequentialValue(t)

\* a fold does end with its sequential value when no other fold's fit ran
\* between its own fit and its own predict: the divergence comes from the
\* instance state the folds share
UninterruptedFold ==
    \A t \in DOMAIN tasks :
        (tasks[t].pc = "done" /\ tasks[t].clean) => tasks[t].value = SequentialValue(t)

\* two folds done, one of them with another fold's fit between its fit and its
\* predict, the other without
InterruptedAndNot ==
    \E t, u \in DOMAIN tasks :
        /\ tasks[t].pc = "done" /\ tasks[t].clean
        /\ tasks[u].pc = "done" /\ ~tasks[u].clean
        /\ tasks[t].partition # tasks[u].partition

\* ------------------------------------------------------------------ C7
EntriesFor(raw, id) == {i \in 1..Len(raw) : raw[i].split = id}

ValueFor(raw, id) == raw[CHOOSE i \in EntriesFor(raw, id) : TRUE].value

ReturnedMerged == pc \in {"score", "done"}

=============================================================================
